---- MODULE Spec2Model ----
(***************************************************************************)
(* Model of src/main.c: a step-wise A* search on a CELL_COUNT x CELL_COUNT *)
(* grid.  main() seeds the grid and the open queue, create_barriers()      *)
(* places barriers from random samples, and the main loop calls a_star()   *)
(* once per frame.  Costs are doubles in the source; every value they take *)
(* is a small integer (multiples of 10 and 14), so they are integers here. *)
(***************************************************************************)
EXTENDS Integers, Sequences, FiniteSets, TLC

\* Bounds of the model.  The source has CELL_COUNT = 40 and calls
\* create_barriers(1000); the model runs the same code on 3 x 3 grids with up
\* to SmallGridBarriers barrier samples and on 4 x 4 grids with up to
\* LargeGridBarriers.
SmallGrid == 3
SmallGridBarriers == 3
LargeGrid == 4
LargeGridBarriers == 1

\* Program constants.
NEIGHBOURS_COUNT == 8
FORCE_STOP_LIMIT == 1000

CELL_EMPTY == "CELL_EMPTY"
CELL_START == "CELL_START"
CELL_BARRIER == "CELL_BARRIER"
CELL_VISITED == "CELL_VISITED"
CELL_NEIGHBOUR == "CELL_NEIGHBOUR"
CELL_PATH == "CELL_PATH"
CELL_TARGET == "CELL_TARGET"

VARIABLES
    CELL_COUNT,        \* side of the grid (a macro of the source)
    START,             \* START_X, START_Y
    TARGET,            \* TARGET_X, TARGET_Y
    n_barriers,        \* argument of create_barriers
    n_created,         \* create_barriers' loop counter
    grid,              \* grid[CELL_COUNT][CELL_COUNT]
    open_nodes_queue,  \* open_nodes_queue.cells[0..idx], idx = Len - 1
    closed_nodes,      \* closed_nodes[0..closed_nodes_count-1]
    found_target,
    ret,               \* which return of a_star() the last call took
    indexed,           \* coordinates the last a_star() call indexed grid with
    examined,          \* neighbours whose cell the loop of the last call read
    walked             \* coordinates draw_path read tmp_cell from, in order

vars == <<CELL_COUNT, START, TARGET, n_barriers, n_created, grid, open_nodes_queue,
          closed_nodes, found_target, ret, indexed, examined, walked>>

QUEUE_SIZE == CELL_COUNT * CELL_COUNT

\* CellPosition_Typedef
Pos == [x : 0..(CELL_COUNT - 1), y : 0..(CELL_COUNT - 1)]
CellPosition(px, py) == [x |-> px, y |-> py]
NoParent == CellPosition(-1, -1)

\* A zero-initialised Cell_Typedef (grid is a global array).
ZeroCell ==
    [position |-> CellPosition(0, 0), h_cost |-> 0, g_cost |-> 0, cost |-> 0,
     state |-> CELL_EMPTY, parent_position |-> CellPosition(0, 0)]

abs(n) == IF n < 0 THEN -n ELSE n

\* compute_distance without the subtraction of the diagonal part.
compute_distance_no_subtraction(x1, y1, x2, y2) ==
    LET dx == abs(x1 - x2)
        dy == abs(y1 - y2)
    IN  IF dx > dy THEN 14 * dy + 10 * dx
        ELSE 14 * dx + 10 * dy

\* compute_distance with the differences taken without abs().
compute_distance_no_abs(x1, y1, x2, y2) ==
    LET dx == x1 - x2
        dy == y1 - y2
    IN  IF dx > dy THEN 14 * dy + 10 * (dx - dy)
        ELSE 14 * dx + 10 * (dy - dx)

compute_distance(x1, y1, x2, y2) ==
    LET dx == abs(x1 - x2)
        dy == abs(y1 - y2)
    IN  IF dx > dy THEN 14 * dy + 10 * (dx - dy)
        ELSE 14 * dx + 10 * (dy - dx)

\* g() and h() of the source, with START and TARGET passed explicitly.
g(x1, y1, s) == compute_distance(x1, y1, s.x, s.y)
h(x1, y1, t) == compute_distance(x1, y1, t.x, t.y)

\* is_empty with the test off by one (idx < 1).
is_empty_one_left(queue) == (Len(queue) - 1) < 1

is_full(queue) == (Len(queue) - 1) > QUEUE_SIZE - 1
is_empty(queue) == (Len(queue) - 1) < 0

\* enqueue: cells[++idx] = cell unless is_full.  is_full lets a queue of
\* QUEUE_SIZE entries through, and the store then goes to cells[QUEUE_SIZE];
\* no run within the bounds of the model pushes onto such a queue.
enqueue(queue, cell) ==
    IF is_full(queue) THEN queue ELSE Append(queue, cell)

\* compare_cell_cost with the two results exchanged.
compare_cell_cost_ascending(qA, qB) ==
    IF qA.cost < qB.cost THEN -1 ELSE IF qA.cost > qB.cost THEN 1 ELSE 0

compare_cell_cost(qA, qB) ==
    IF qA.cost < qB.cost THEN 1 ELSE IF qA.cost > qB.cost THEN -1 ELSE 0

RemoveAt(s, i) == SubSeq(s, 1, i - 1) \o SubSeq(s, i + 1, Len(s))

\* One sorted order of the cells under compare_cell_cost: insertion sort that
\* keeps cells of equal cost in the order they had.
Insert(sorted, cell) ==
    LET k == Cardinality({ i \in 1..Len(sorted) :
                             compare_cell_cost(sorted[i], cell) <= 0 })
    IN  SubSeq(sorted, 1, k) \o << cell >> \o SubSeq(sorted, k + 1, Len(sorted))
RECURSIVE StableSort(_)
StableSort(cells) ==
    IF cells = << >> THEN << >>
    ELSE Insert(StableSort(SubSeq(cells, 1, Len(cells) - 1)), cells[Len(cells)])

\* The indices of s whose cell may stand last in a sorted order of s.
LastCandidates(s) ==
    { i \in 1..Len(s) : \A j \in 1..Len(s) : compare_cell_cost(s[j], s[i]) <= 0 }

\* qsort with compare_cell_cost (line 250).  qsort leaves the order of cells
\* that compare equal unspecified, so the result is a set of orders.  The
\* program reads the order of the queue in two places only: pop takes
\* cells[idx], and the scan of lines 214-220 skips the cell left at cells[idx]
\* after the pop; everything else it asks of the queue is whether a position
\* occurs in it.  The set therefore holds every choice of the last two cells
\* that a sorted order allows, each with the cells before them in one sorted
\* order.
qsort(cells) ==
    LET s == StableSort(cells) IN
    IF Len(s) <= 1 THEN { s }
    ELSE UNION { LET r == RemoveAt(s, a)
                 IN  { RemoveAt(r, b) \o << r[b], s[a] >> : b \in LastCandidates(r) } :
                 a \in LastCandidates(s) }

\* The setup of main() before create_barriers (lines 259-274).
StartCell(s, t) ==
    [position |-> s, h_cost |-> h(s.x, s.y, t), g_cost |-> g(s.x, s.y, s),
     cost |-> g(s.x, s.y, s) + h(s.x, s.y, t),
     state |-> CELL_START, parent_position |-> NoParent]

Init ==
    /\ \/ CELL_COUNT = SmallGrid /\ n_barriers \in 0..SmallGridBarriers
       \/ CELL_COUNT = LargeGrid /\ n_barriers \in 0..LargeGridBarriers
    /\ START \in Pos
    /\ TARGET \in Pos \ {START}
    /\ n_created = 0
    /\ grid = [p \in Pos |->
                 IF p = START THEN StartCell(START, TARGET)
                 ELSE IF p = TARGET
                      THEN [ZeroCell EXCEPT !.state = CELL_TARGET, !.position = p]
                      ELSE ZeroCell]
    /\ open_nodes_queue = << StartCell(START, TARGET) >>
    /\ closed_nodes = << >>
    /\ found_target = FALSE
    /\ ret = "none"
    /\ indexed = {}
    /\ examined = {}
    /\ walked = << >>

\* One iteration of the loop of create_barriers, for one pair of rand() samples.
create_barriers ==
    /\ n_created < n_barriers
    /\ \E rand_x \in 0..(CELL_COUNT - 1), rand_y \in 0..(CELL_COUNT - 1) :
         LET p == CellPosition(rand_x, rand_y) IN
         IF grid[p].state # CELL_START /\ grid[p].state # CELL_TARGET
         THEN /\ grid' = [grid EXCEPT ![p] = [@ EXCEPT !.state = CELL_BARRIER]]
              /\ n_created' = n_created + 1
         ELSE UNCHANGED <<grid, n_created>>
    /\ UNCHANGED <<CELL_COUNT, START, TARGET, n_barriers, open_nodes_queue, closed_nodes,
                   found_target, ret, indexed, examined, walked>>

\* The neighbour array with its first entry a repeat of the fourth.
neighbours_one_repeated(x, y) ==
    << CellPosition(x - 1, y + 1), CellPosition(x + 1, y + 1),
       CellPosition(x + 1, y - 1), CellPosition(x - 1, y + 1),
       CellPosition(x + 1, y),     CellPosition(x - 1, y),
       CellPosition(x, y - 1),     CellPosition(x, y + 1) >>

\* The 8 neighbours of (x, y), in the order of the array of a_star (line 171).
neighbours(x, y) ==
    << CellPosition(x - 1, y - 1), CellPosition(x + 1, y + 1),
       CellPosition(x + 1, y - 1), CellPosition(x - 1, y + 1),
       CellPosition(x + 1, y),     CellPosition(x - 1, y),
       CellPosition(x, y - 1),     CellPosition(x, y + 1) >>

\* What the out-of-range read grid[-1][-1] of draw_path can yield.  The C
\* standard leaves it undefined; the model takes the records that either end
\* the loop at once (sentinel parent) or send it through one arbitrary cell
\* and then to the start cell.
Garbage(s) ==
    { [ZeroCell EXCEPT !.position = p, !.parent_position = q] :
        p \in Pos, q \in {NoParent, s} }

\* The loop of draw_path (lines 134-142) from tmp_cell, force_stop iterations
\* done so far; w is the list of coordinates tmp_cell was read from.  The
\* result is the set of outcomes [grid, walked].
RECURSIVE draw_path_loop(_, _, _, _, _)
draw_path_loop(gr, tmp_cell, force_stop, w, s) ==
    IF ~(force_stop < FORCE_STOP_LIMIT) THEN { [grid |-> gr, walked |-> w] }
    ELSE LET marked == IF tmp_cell.position \in Pos
                       THEN [gr EXCEPT ![tmp_cell.position] = [@ EXCEPT !.state = CELL_PATH]]
                       ELSE gr
             from == tmp_cell.parent_position
             reads == IF from \in Pos THEN { marked[from] } ELSE Garbage(s)
         IN  UNION { IF next.parent_position.x = -1 /\ next.parent_position.y = -1
                     THEN { [grid |-> marked, walked |-> Append(w, from)] }
                     ELSE draw_path_loop(marked, next, force_stop + 1,
                                         Append(w, from), s) :
                     next \in reads }

draw_path(gr, current_cell, s) ==
    draw_path_loop(gr, gr[current_cell.position], 0,
                   << current_cell.position >>, s)

InBounds(p) ==
    ~(p.x < 0 \/ p.x > CELL_COUNT - 1 \/ p.y < 0 \/ p.y > CELL_COUNT - 1)

\* The scan of lines 200-210.
is_closed(closed, p) ==
    \E c \in 1..Len(closed) : closed[c].position.x = p.x /\ closed[c].position.y = p.y

\* The scan of lines 214-220: o runs over 0 .. idx - 1, so the entry at
\* cells[idx] is not looked at.
in_queue(queue, p) ==
    \E o \in 1..(Len(queue) - 1) :
        queue[o].position.x = p.x /\ queue[o].position.y = p.y

\* The admission test without its "not in the queue" alternative.
admit_cost_only(queue, neighbour_g, p, s) ==
    neighbour_g <= g(p.x, p.y, s)

\* Lines 231-245: the admission test and the update of the neighbour's cell.
admit(queue, neighbour_g, p, s) ==
    ~in_queue(queue, p) \/ neighbour_g <= g(p.x, p.y, s)

\* The update with the neighbour's own position stored as its parent.
updated_parent_self(gr, p, neighbour_g, current_cell, t) ==
    [gr EXCEPT ![p] =
        [position |-> p,
         h_cost |-> h(p.x, p.y, t),
         g_cost |-> neighbour_g,
         cost |-> neighbour_g + h(p.x, p.y, t),
         state |-> IF gr[p].state = CELL_EMPTY THEN CELL_NEIGHBOUR ELSE gr[p].state,
         parent_position |-> p]]

updated(gr, p, neighbour_g, current_cell, t) ==
    [gr EXCEPT ![p] =
        [position |-> p,
         h_cost |-> h(p.x, p.y, t),
         g_cost |-> neighbour_g,
         cost |-> neighbour_g + h(p.x, p.y, t),
         state |-> IF gr[p].state = CELL_EMPTY THEN CELL_NEIGHBOUR ELSE gr[p].state,
         parent_position |-> current_cell.position]]

\* The neighbour loop of a_star (lines 179-247) from neighbour n on.  st is
\* [grid, queue, indexed, found]; found is set when the loop returned at the
\* target (line 189), before draw_path is called.
RECURSIVE assess(_, _, _, _, _, _)
assess(n, current_cell, closed, st, s, t) ==
    IF ~(n < NEIGHBOURS_COUNT) THEN st
    ELSE LET neighbour == neighbours(current_cell.position.x,
                                     current_cell.position.y)[n + 1]
             seen == [st EXCEPT !.indexed = @ \cup {neighbour}]
             neighbour_g == current_cell.g_cost +
                            compute_distance(current_cell.position.x,
                                             current_cell.position.y,
                                             neighbour.x, neighbour.y)
         IN  IF ~InBounds(neighbour)
             THEN assess(n + 1, current_cell, closed, st, s, t)
             ELSE IF st.grid[neighbour].state = CELL_TARGET
             THEN [seen EXCEPT !.found = TRUE]
             ELSE IF st.grid[neighbour].state = CELL_BARRIER
             THEN assess(n + 1, current_cell, closed, seen, s, t)
             ELSE IF is_closed(closed, neighbour)
             THEN assess(n + 1, current_cell, closed, seen, s, t)
             ELSE IF admit(st.queue, neighbour_g, neighbour, s)
             THEN LET gr == updated(st.grid, neighbour, neighbour_g,
                                    current_cell, t)
                  IN  assess(n + 1, current_cell, closed,
                             [seen EXCEPT !.grid = gr,
                                          !.queue = enqueue(st.queue, gr[neighbour])],
                             s, t)
             ELSE assess(n + 1, current_cell, closed, seen, s, t)

\* main() is in its loop once create_barriers has returned.
InMainLoop == ~(n_created < n_barriers)

\* pop: *cell = cells[idx--].
pop_cell(queue) == queue[Len(queue)]
pop_rest(queue) == SubSeq(queue, 1, Len(queue) - 1)

\* a_star() returning at line 151: the target was found by an earlier call.
a_star_found ==
    /\ found_target
    /\ ret' = "already_found"
    /\ indexed' = {}
    /\ examined' = {}
    /\ UNCHANGED <<grid, open_nodes_queue, closed_nodes, found_target, walked>>

\* a_star() returning at line 156: pop() found the queue empty.
a_star_empty ==
    /\ ~found_target
    /\ is_empty(open_nodes_queue)
    /\ ret' = "queue_empty"
    /\ indexed' = {}
    /\ examined' = {}
    /\ UNCHANGED <<grid, open_nodes_queue, closed_nodes, found_target, walked>>

\* Lines 159-251: the expansion of the popped cell.
expand ==
    LET current_cell == pop_cell(open_nodes_queue)
        closed == Append(closed_nodes, current_cell)
        pos == current_cell.position
        visited == IF grid[pos].state # CELL_START
                   THEN [grid EXCEPT ![pos] = [@ EXCEPT !.state = CELL_VISITED]]
                   ELSE grid
        st == assess(0, current_cell, closed,
                     [grid |-> visited, queue |-> pop_rest(open_nodes_queue),
                      indexed |-> {pos}, found |-> FALSE],
                     START, TARGET)
    IN  /\ closed_nodes' = closed
        /\ found_target' = st.found
        /\ examined' = st.indexed \ {pos}
        /\ IF st.found
           THEN \E out \in draw_path(st.grid, current_cell, START) :
                  /\ grid' = out.grid
                  /\ walked' = out.walked
                  /\ indexed' = st.indexed \cup
                                { out.walked[i] : i \in 1..Len(out.walked) }
                  /\ open_nodes_queue' = st.queue
                  /\ ret' = "found"
           ELSE /\ grid' = st.grid
                /\ walked' = walked
                /\ indexed' = st.indexed
                /\ open_nodes_queue' \in qsort(st.queue)
                /\ ret' = "expanded"

\* a_star() without the early return of line 150.
a_star_expand_after_found ==
    /\ ~is_empty(open_nodes_queue)
    /\ expand

\* a_star() getting past both early returns (lines 150-157).
a_star_expand ==
    /\ ~found_target
    /\ ~is_empty(open_nodes_queue)
    /\ expand

\* One call of a_star() from the main loop.
a_star ==
    /\ InMainLoop
    /\ UNCHANGED <<CELL_COUNT, START, TARGET, n_barriers, n_created>>
    /\ (a_star_found \/ a_star_empty \/ a_star_expand)

Next == create_barriers \/ a_star

Spec == Init /\ [][Next]_vars

\* What every call of a_star() that gets past its early returns does to
\* closed_nodes (line 160).
a_star_pops ==
    /\ InMainLoop
    /\ ~found_target
    /\ ~is_empty(open_nodes_queue)
    /\ closed_nodes' = Append(closed_nodes, pop_cell(open_nodes_queue))

\* main's loop (lines 278-281) calls a_star() on every frame, so a call that
\* can pop is not put off forever.
FairSpec == Spec /\ WF_closed_nodes(a_star_pops)

\* Helpers for the properties.
BarrierCells == { p \in Pos : grid[p].state = CELL_BARRIER }
CellsIn(st) == { p \in Pos : grid[p].state = st }
Terminal == InMainLoop /\ (found_target \/ Len(open_nodes_queue) = 0)
Exhausted == InMainLoop /\ ~found_target /\ Len(open_nodes_queue) = 0
Adjacent(p, q) == p # q /\ abs(p.x - q.x) <= 1 /\ abs(p.y - q.y) <= 1
MoveCost(p, q) == IF p.x # q.x /\ p.y # q.y THEN 14 ELSE 10
Positions(cells) == { cells[i].position : i \in 1..Len(cells) }

\* The cells an 8-connected walk from the cells of S reaches without entering
\* a barrier.
RECURSIVE Reach(_)
Reach(S) ==
    LET T == S \cup { q \in Pos : /\ grid[q].state # CELL_BARRIER
                                  /\ \E p \in S : Adjacent(p, q) }
    IN  IF T = S THEN S ELSE Reach(T)
PathExists == TARGET \in Reach({START})
TargetEnclosed ==
    \A q \in Pos : Adjacent(q, TARGET) => grid[q].state = CELL_BARRIER

\* Cheapest cost of an 8-connected barrier-free route from START to each cell
\* it reaches: the fixpoint of relaxing a set of <<cell, cost>> pairs.
Cheapest(S) == { e \in S : \A f \in S : f[1] = e[1] => e[2] <= f[2] }
Moves(S) ==
    UNION { { <<q, e[2] + MoveCost(e[1], q)>> :
                q \in { r \in Pos : /\ Adjacent(e[1], r)
                                    /\ grid[r].state # CELL_BARRIER } } :
            e \in S }
RECURSIVE Relax(_)
Relax(S) ==
    LET T == Cheapest(S \cup Moves(S))
    IN  IF T = S THEN S ELSE Relax(T)
MinCost ==
    LET best == Relax({ <<START, 0>> })
    IN  IF \E e \in best : e[1] = TARGET
        THEN (CHOOSE e \in best : e[1] = TARGET)[2]
        ELSE 14 * QUEUE_SIZE + 1

\* Cost of the parent chain from cell p back to START, in at most k links.
RECURSIVE ChainCost(_, _)
ChainCost(p, k) ==
    IF p = START \/ k = 0 \/ p \notin Pos THEN 0
    ELSE MoveCost(p, grid[p].parent_position) + ChainCost(grid[p].parent_position, k - 1)
Popped == closed_nodes[Len(closed_nodes)].position
RouteCost == ChainCost(Popped, QUEUE_SIZE) + MoveCost(Popped, TARGET)

\* C1: no coordinate is appended to closed_nodes more than once.
C1_NoCoordinateExpandedTwice ==
    \A i, j \in 1..Len(closed_nodes) :
        closed_nodes[i].position = closed_nodes[j].position => i = j

C3_FoundRouteIsCheapest ==
    (found_target /\ ret = "found") => RouteCost = MinCost

\* C4: once main is in its loop, repeated calls of a_star() lead to a
\* terminal state: the target found or the queue empty.
C4_EventuallyTerminal == InMainLoop ~> Terminal
C4_Witness == Exhausted /\ Len(closed_nodes) >= 5

\* C5: in a terminal state a call of a_star() changes neither the grid, the
\* queue, the closed list nor found_target.
C5_TerminalIsFrozen ==
    [][Terminal => UNCHANGED <<grid, open_nodes_queue, closed_nodes, found_target>>]_vars
C5_Witness == ret = "already_found" /\ Len(open_nodes_queue) > 0

\* C6: exactly one cell is in state Start and exactly one in state Target,
\* and they are the start cell and the target cell.
C6_OneStartOneTarget ==
    CellsIn(CELL_START) = {START} /\ CellsIn(CELL_TARGET) = {TARGET}

\* C7: a_star() and draw_path() index the grid with in-range coordinates only.
C7_GridAccessInBounds == indexed \subseteq Pos

\* C8: the cells draw_path walks are each 8-adjacent to the next, and the walk
\* ends at the start cell.
C8_PathChainContiguous ==
    ret = "found" =>
        /\ \A i \in 1..(Len(walked) - 1) :
             compute_distance(walked[i].x, walked[i].y,
                              walked[i + 1].x, walked[i + 1].y) \in {10, 14}
        /\ walked[Len(walked)] = START

\* C9: when create_barriers(count) has returned, exactly count cells are
\* barriers and neither the start nor the target cell is one.
C9_ExactlyCountBarriers ==
    (InMainLoop /\ ret = "none") =>
        /\ Cardinality(BarrierCells) = n_barriers
        /\ START \notin BarrierCells /\ TARGET \notin BarrierCells

\* C10: on the 3 x 3 grid without barriers, from (0,0) to (2,2), the search
\* ends with the target found after expanding (0,0) and (1,1), with (1,1) the
\* only Path cell and a route of cost 28.
ScenarioA ==
    /\ CELL_COUNT = 3 /\ n_barriers = 0 /\ InMainLoop
    /\ START = CellPosition(0, 0) /\ TARGET = CellPosition(2, 2)
C10_ScenarioA ==
    ScenarioA =>
        /\ Len(closed_nodes) <= 2
        /\ ~Exhausted
        /\ found_target =>
             /\ CellsIn(CELL_PATH) = { CellPosition(1, 1) }
             /\ walked = << CellPosition(1, 1), CellPosition(0, 0) >>
             /\ RouteCost = 28
C10_Witness == ScenarioA /\ found_target /\ ret = "found"

\* C11: the entries of the queue and of closed_nodes together number at most
\* CELL_COUNT x CELL_COUNT.
C11_QueuePlusClosedWithinCells ==
    Len(open_nodes_queue) + Len(closed_nodes) <= QUEUE_SIZE

\* C12: whenever a call of a_star() is about to pop, the entry pop takes
\* (cells[idx]) has a total cost g_cost + h_cost no greater than that of any
\* other entry of the queue.
f_cost(cell) == cell.g_cost + cell.h_cost
C12_PopTakesLowestCost ==
    (~found_target /\ ~is_empty(open_nodes_queue)) =>
        \A i \in 1..Len(open_nodes_queue) :
            /\ f_cost(pop_cell(open_nodes_queue)) <= f_cost(open_nodes_queue[i])
            /\ open_nodes_queue[i].cost = f_cost(open_nodes_queue[i])
C12_Witness ==
    /\ InMainLoop /\ ret = "expanded" /\ Len(closed_nodes) >= 2
    /\ Len(open_nodes_queue) >= 3
    /\ \E i \in 1..Len(open_nodes_queue) :
          f_cost(open_nodes_queue[i]) > f_cost(pop_cell(open_nodes_queue))

\* C13: for all coordinates a, b of the grid, compute_distance(a, b) is
\* 14 * min(dx, dy) + 10 * (max(dx, dy) - min(dx, dy)) and equals
\* compute_distance(b, a).  Init draws every pair of distinct coordinates as
\* START and TARGET, so a and b range over these two.
Min(m, n) == IF m < n THEN m ELSE n
Max(m, n) == IF m < n THEN n ELSE m
C13_DistanceFormulaSymmetric ==
    \A a, b \in {START, TARGET} :
        LET dx == abs(a.x - b.x)
            dy == abs(a.y - b.y)
        IN  /\ compute_distance(a.x, a.y, b.x, b.y) =
                 14 * Min(dx, dy) + 10 * (Max(dx, dy) - Min(dx, dy))
            /\ compute_distance(a.x, a.y, b.x, b.y) =
                 compute_distance(b.x, b.y, a.x, a.y)
C13_Witness ==
    /\ InMainLoop /\ ret = "expanded"
    /\ abs(START.x - TARGET.x) = 1 /\ abs(START.y - TARGET.y) = 3
    /\ grid[START].h_cost = 34

\* C14: in a call of a_star() that runs the neighbour loop, a neighbour that is
\* in bounds, enumerated before any Target neighbour, not a Barrier and not in
\* closed_nodes gets its grid record written and one more entry in the queue
\* exactly when no entry of the queue has its coordinate or its tentative g_cost
\* is at most g() of it; otherwise its record and its entries are as before.
Count(queue, p) == Cardinality({ i \in 1..Len(queue) : queue[i].position = p })
BeforeTarget(nb, n) == \A k \in 1..n : InBounds(nb[k]) => grid[nb[k]].state # CELL_TARGET
CostFields(cell) == << cell.g_cost, cell.h_cost, cell.cost, cell.parent_position >>
C14_AdmissionRule ==
    [][(ret' \in {"expanded", "found"} /\ closed_nodes' # closed_nodes) =>
        LET current_cell == pop_cell(open_nodes_queue)
            rest == pop_rest(open_nodes_queue)
            nb == neighbours(current_cell.position.x, current_cell.position.y)
        IN  \A n \in 1..NEIGHBOURS_COUNT :
              LET p == nb[n]
                  tentative_g == current_cell.g_cost +
                                 compute_distance(current_cell.position.x,
                                                  current_cell.position.y, p.x, p.y)
              IN  (/\ InBounds(p) /\ BeforeTarget(nb, n)
                   /\ grid[p].state # CELL_BARRIER
                   /\ ~is_closed(closed_nodes', p)) =>
                  IF p \notin Positions(rest) \/ tentative_g <= g(p.x, p.y, START)
                  THEN /\ Count(open_nodes_queue', p) = Count(rest, p) + 1
                       /\ CostFields(grid'[p]) =
                            << tentative_g, h(p.x, p.y, TARGET),
                               tentative_g + h(p.x, p.y, TARGET),
                               current_cell.position >>
                  ELSE /\ Count(open_nodes_queue', p) = Count(rest, p)
                       /\ CostFields(grid'[p]) = CostFields(grid[p])
      ]_vars

\* C15: every discovered cell other than the start cell has a parent in the
\* grid whose g_cost is at most its own, and the start cell alone has the
\* sentinel parent (-1,-1).  A cell is discovered once a_star() has written its
\* record and pushed it: the cells with an entry in the queue or in
\* closed_nodes.
Discovered(p) ==
    p \in Positions(open_nodes_queue) \cup Positions(closed_nodes)
C15_ParentNoCostlier ==
    \A p \in Pos :
        (p = START \/ Discovered(p)) =>
            IF p = START THEN grid[p].parent_position = NoParent
            ELSE /\ grid[p].parent_position \in Pos
                 /\ grid[grid[p].parent_position].g_cost <= grid[p].g_cost

\* C16: over the calls of a_star(), the state of a cell other than the start
\* and target cells only moves forward along Empty -> Neighbour -> Visited ->
\* Path: a call leaves it as it is, takes Empty to Neighbour, Neighbour to
\* Visited, Visited to Path, or takes the popped cell from Neighbour through
\* Visited (line 167) to Path.
Forward(p, before, after) ==
    \/ after = before
    \/ before = CELL_EMPTY /\ after = CELL_NEIGHBOUR
    \/ before = CELL_NEIGHBOUR /\ after = CELL_VISITED
    \/ before = CELL_VISITED /\ after = CELL_PATH
    \/ /\ before = CELL_NEIGHBOUR /\ after = CELL_PATH
       /\ p = pop_cell(open_nodes_queue).position
C16_StatesMoveForward ==
    [][InMainLoop =>
        \A p \in Pos \ {START, TARGET} :
            Forward(p, grid[p].state, grid'[p].state)]_vars

\* C17: a call of a_star() leaves the set of barrier cells and the records of
\* the barrier cells as they are, and no barrier cell has an entry in the
\* queue or in closed_nodes.
C17_BarriersUntouched ==
    [][InMainLoop =>
        /\ BarrierCells' = BarrierCells
        /\ \A p \in BarrierCells : grid'[p] = grid[p]
        /\ Positions(open_nodes_queue') \cap BarrierCells = {}
        /\ Positions(closed_nodes') \cap BarrierCells = {}]_vars

\* C18: the queue never holds more than QUEUE_SIZE entries, and a push onto a
\* queue that holds QUEUE_SIZE entries leaves it as it is.
C18_PushAtCapacityRejected ==
    /\ Len(open_nodes_queue) <= QUEUE_SIZE
    /\ Len(open_nodes_queue) = QUEUE_SIZE =>
          enqueue(open_nodes_queue, grid[START]) = open_nodes_queue

\* C19: a call of a_star() that pops sets found_target exactly when the target
\* is one of the 8 cells around the popped cell, the start cell included; it
\* then runs draw_path on the popped cell and has read none of the neighbours
\* listed after the target, and otherwise it runs no draw_path.
C19_FoundIffTargetNeighbour ==
    [][(InMainLoop /\ closed_nodes' # closed_nodes) =>
        LET pos == pop_cell(open_nodes_queue).position
            nb == neighbours(pos.x, pos.y)
        IN  /\ found_target' <=> Adjacent(pos, TARGET)
            /\ found_target' =>
                 /\ ret' = "found"
                 /\ Len(walked') >= 1 /\ walked'[1] = pos
                 /\ grid'[pos].state = CELL_PATH
                 /\ \A k \in 1..NEIGHBOURS_COUNT :
                      nb[k] = TARGET =>
                          \A j \in (k + 1)..NEIGHBOURS_COUNT : nb[j] \notin examined'
            /\ ~found_target' =>
                 /\ walked' = walked
                 /\ \A p \in Pos : grid'[p].state # CELL_PATH
      ]_vars
C19_Witness ==
    /\ ret = "found" /\ Len(closed_nodes) = 1 /\ closed_nodes[1].position = START
    /\ examined # {}
    /\ \E q \in Pos : Adjacent(q, START) /\ q \notin examined \cup {TARGET}

\* C20 as stated: every cell of the grid whose parent is not the sentinel has
\* its parent in closed_nodes.  The grid is zero-initialised, so a cell that
\* was never pushed has the parent (0,0).
C20_EveryNonSentinelParentExpanded ==
    \A p \in Pos :
        grid[p].parent_position # NoParent =>
            grid[p].parent_position \in Positions(closed_nodes)

\* C20, amended: every discovered cell other than the start cell has its
\* parent in closed_nodes, the parent's first entry there comes before the
\* cell's own first entry, and the parent links from any discovered cell reach
\* the start cell's sentinel in at most CELL_COUNT x CELL_COUNT hops without
\* passing a cell twice.
FirstExpanded(p) ==
    CHOOSE i \in 1..Len(closed_nodes) :
        /\ closed_nodes[i].position = p
        /\ \A j \in 1..(i - 1) : closed_nodes[j].position # p
RECURSIVE ChainEndsAtStart(_, _, _)
ChainEndsAtStart(p, hops, passed) ==
    IF p \notin Pos \/ p \in passed THEN FALSE
    ELSE IF grid[p].parent_position = NoParent THEN p = START
    ELSE IF hops = 0 THEN FALSE
    ELSE ChainEndsAtStart(grid[p].parent_position, hops - 1, passed \cup {p})
C20_ParentExpandedFirst ==
    \A p \in Pos :
        Discovered(p) =>
            /\ ChainEndsAtStart(p, QUEUE_SIZE, {})
            /\ p # START =>
                 LET parent == grid[p].parent_position
                 IN  /\ parent \in Positions(closed_nodes)
                     /\ p \in Positions(closed_nodes) =>
                          FirstExpanded(parent) < FirstExpanded(p)
C20_Witness ==
    /\ ret = "expanded" /\ Len(closed_nodes) >= 4
    /\ \E p \in Positions(closed_nodes) \ {START} :
          /\ grid[p].parent_position # START
          /\ grid[grid[p].parent_position].parent_position # START

TypeOK ==
    /\ START \in Pos /\ TARGET \in Pos
    /\ n_created \in 0..n_barriers
    /\ found_target \in BOOLEAN

====
